---- MODULE Spec2Model ----
(***************************************************************************)
(* zootasks_utils: the identifier helpers of _src/upload_utils.py.         *)
(*                                                                         *)
(*   get_hash_id(subject_id, extra_key)      SHA-256 hex digest            *)
(*   make_id_str(tile_index, object_id, release_name)   scalar variant     *)
(*   make_id_str(df, include_release_name)              DataFrame variant  *)
(*                                                                         *)
(* The functions are pure.  The state machine is a caller that invokes one *)
(* of them on inputs drawn from bounded sets and holds the returned value  *)
(* (or the raised exception) until it discards it.                         *)
(*                                                                         *)
(* Identifier texts are sequences of one-character strings.  Texts that    *)
(* are hashed are sequences of Unicode code points, because the digest is  *)
(* taken over their UTF-8 bytes.                                           *)
(***************************************************************************)
EXTENDS Integers, Sequences, FiniteSets, TLC

VARIABLES
    pc,      \* "idle" | "returned": the caller's position
    call,    \* the arguments of the call in progress
    ret,     \* what the call returned or raised
    hcall    \* the last get_hash_id call and its digest

vars == <<pc, call, ret, hcall>>

-----------------------------------------------------------------------------
(* Bounds of the model *)

\* enumerated object_id texts have at most this many characters
MaxLen == 2
\* a DataFrame has at most this many rows
MaxRows == 2
\* len(subject_id) + len(extra_key) is at most this
MaxHashLen == 3

-----------------------------------------------------------------------------
(* Python values *)

\* the NUL character U+0000
NUL == "\\0"

PyNone == [type |-> "NoneType", val |-> <<>>]
PyStr(s) == [type |-> "str", val |-> s]
PyInt(n) == [type |-> "int", val |-> n]

Digits == <<"0", "1", "2", "3", "4", "5", "6", "7", "8", "9">>

\* str(n) of a non-negative int
RECURSIVE NatToStr(_)
NatToStr(n) ==
    IF n < 10 THEN <<Digits[n + 1]>>
    ELSE NatToStr(n \div 10) \o <<Digits[(n % 10) + 1]>>

\* str(n) of an int
IntToStr(n) == IF n < 0 THEN <<"-">> \o NatToStr(0 - n) ELSE NatToStr(n)

\* f"{x}" of an int or a str
PyFormat(x) == IF x.type = "int" THEN IntToStr(x.val) ELSE x.val

\* str.replace(old, new, count) for a non-empty old; count < 0 replaces all
RECURSIVE StrReplace(_, _, _, _)
StrReplace(s, old, new, count) ==
    IF count = 0 \/ Len(s) < Len(old) THEN s
    ELSE IF SubSeq(s, 1, Len(old)) = old
         THEN new \o StrReplace(SubSeq(s, Len(old) + 1, Len(s)), old, new,
                                IF count < 0 THEN count ELSE count - 1)
         ELSE <<s[1]>> \o StrReplace(Tail(s), old, new, count)

-----------------------------------------------------------------------------
(* numpy: a str becomes a 0-d array of dtype <U{n}, a fixed-width buffer   *)
(* padded with NUL; reading the element back drops the trailing NULs.      *)

RECURSIVE Repeat(_, _)
Repeat(c, n) == IF n <= 0 THEN <<>> ELSE <<c>> \o Repeat(c, n - 1)

RECURSIVE StripTrailingNul(_)
StripTrailingNul(s) ==
    IF s # <<>> /\ s[Len(s)] = NUL
    THEN StripTrailingNul(SubSeq(s, 1, Len(s) - 1))
    ELSE s

NpAsArray(s, width) ==
    [itemsize |-> width, data |-> s \o Repeat(NUL, width - Len(s))]

NpItem(arr) == StripTrailingNul(arr.data)

\* np.asarray(s): the itemsize is the length of s, and at least 1
NpFromStr(s) == NpAsArray(s, IF Len(s) = 0 THEN 1 ELSE Len(s))

\* a slip: old and new the other way round
np_char_replace_swapped(a, old, new) ==
    NpFromStr(StrReplace(NpItem(NpFromStr(a)), new, old, -1))

\* np.char.replace(a, old, new) with the default count: every occurrence
np_char_replace(a, old, new) ==
    NpFromStr(StrReplace(NpItem(NpFromStr(a)), old, new, -1))

-----------------------------------------------------------------------------
(* make_id_str, scalar variant *)

IdPrefix(release_name) ==
    IF release_name.type # "NoneType" THEN release_name.val \o <<"_">> ELSE <<>>

make_id_str(tile_index, object_id, release_name) ==
    LET prefix == IdPrefix(release_name)
        obj_id == np_char_replace(object_id.val, <<"-">>, <<"N", "E", "G">>)
    IN  prefix \o PyFormat(tile_index) \o <<"_">> \o NpItem(obj_id)

-----------------------------------------------------------------------------
(* polars: a Series is a sequence of cells, a cell a str, an int or null.  *)
(* Every expression works on whole columns, and null propagates.           *)

PlNull == [type |-> "null", val |-> <<>>]

IsDigit(c) == \E i \in 1..10 : Digits[i] = c
DigitVal(c) == (CHOOSE i \in 1..10 : Digits[i] = c) - 1

RECURSIVE DigitsToNat(_)
DigitsToNat(s) ==
    IF s = <<>> THEN 0
    ELSE 10 * DigitsToNat(SubSeq(s, 1, Len(s) - 1)) + DigitVal(s[Len(s)])

AllDigits(s) == s # <<>> /\ \A i \in 1..Len(s) : IsDigit(s[i])

\* of the texts over the characters of this model, the ones the
\* String -> Int64 cast parses: an optional "-" and then digits
IsInt64Text(s) ==
    IF s # <<>> /\ s[1] = "-" THEN AllDigits(Tail(s)) ELSE AllDigits(s)

ParseInt64(s) == IF s[1] = "-" THEN 0 - DigitsToNat(Tail(s)) ELSE DigitsToNat(s)

\* one cell of cast(pl.Int64, strict=False): what does not parse becomes null
CastCellInt64(c) ==
    IF c.type = "str"
    THEN IF IsInt64Text(c.val) THEN PyInt(ParseInt64(c.val)) ELSE PlNull
    ELSE c

PlCastInt64(s) == [i \in 1..Len(s) |-> CastCellInt64(s[i])]

\* a slip: cast(pl.Int64, strict=False) never fails
PlCastInt64Fails_nonstrict(s) == FALSE

\* cast(pl.Int64) is strict: it fails when the cast made a null of a value
PlCastInt64Fails(s) ==
    \E i \in 1..Len(s) : s[i].type # "null" /\ CastCellInt64(s[i]).type = "null"

\* cast(str)
CastCellStr(c) == IF c.type = "int" THEN PyStr(IntToStr(c.val)) ELSE c

PlCastStr(s) == [i \in 1..Len(s) |-> CastCellStr(s[i])]

\* pl.lit(text), broadcast to the height of the frame
PlLit(text, height) == [i \in 1..height |-> PyStr(text)]

\* a + b on two String columns
PlAdd(a, b) ==
    [i \in 1..Len(a) |->
        IF a[i].type = "null" \/ b[i].type = "null" THEN PlNull
        ELSE PyStr(a[i].val \o b[i].val)]

\* Expr.str.replace(pattern, value): n = 1, the first match only; the
\* pattern "-" is a regular expression that matches the one character "-"
PlStrReplace(s, pattern, value) ==
    [i \in 1..Len(s) |->
        IF s[i].type = "null" THEN PlNull
        ELSE PyStr(StrReplace(s[i].val, pattern, value, 1))]

-----------------------------------------------------------------------------
(* make_id_str, DataFrame variant *)

Height(df) == Len(df.tile_index)

prefix_expr(df, include_release_name) ==
    IF include_release_name
    THEN PlAdd(PlCastStr(df.release_name), PlLit(<<"_">>, Height(df)))
    ELSE PlLit(<<>>, Height(df))

id_expr(df, include_release_name) ==
    PlAdd(PlAdd(PlAdd(prefix_expr(df, include_release_name),
                      PlCastStr(PlCastInt64(df.tile_index))),
                PlLit(<<"_">>, Height(df))),
          PlStrReplace(PlCastStr(df.object_id), <<"-">>, <<"N", "E", "G">>))

Return(v) == [kind |-> "return", value |-> v, exc |-> ""]
Raise(e) == [kind |-> "raise", value |-> <<>>, exc |-> e]

\* Series.unique(maintain_order=True): the first of each value
RECURSIVE SeriesUnique(_)
SeriesUnique(s) ==
    IF Len(s) = 0 THEN <<>>
    ELSE LET rest == SeriesUnique(SubSeq(s, 1, Len(s) - 1))
             last == s[Len(s)]
         IN  IF \E i \in 1..Len(rest) : rest[i] = last THEN rest ELSE Append(rest, last)

\* a slip: the ids are deduplicated before they are returned
make_id_str_df_unique(df, include_release_name) ==
    IF PlCastInt64Fails(df.tile_index)
    THEN Raise("InvalidOperationError")
    ELSE Return(SeriesUnique(id_expr(df, include_release_name)))

make_id_str_df(df, include_release_name) ==
    IF PlCastInt64Fails(df.tile_index)
    THEN Raise("InvalidOperationError")
    ELSE Return(id_expr(df, include_release_name))

-----------------------------------------------------------------------------
(* hashlib.sha256 (FIPS 180-4).  A 32-bit word is the pair <<hi, lo>> of   *)
(* its 16-bit halves, so that every sum stays below 2^31.                  *)

Pow2Table == <<1, 2, 4, 8, 16, 32, 64, 128, 256, 512, 1024, 2048, 4096, 8192, 16384, 32768, 65536>>
Pow2(n) == Pow2Table[n + 1]

RECURSIVE And8(_, _)
And8(a, b) ==
    IF a = 0 \/ b = 0 THEN 0
    ELSE (a % 2) * (b % 2) + 2 * And8(a \div 2, b \div 2)

\* the table of a AND b for two bytes, at index 256 * a + b + 1
RECURSIVE AndRows(_, _)
AndRows(lo, hi) ==
    IF lo = hi THEN <<And8(lo \div 256, lo % 256)>>
    ELSE AndRows(lo, (lo + hi) \div 2) \o AndRows(((lo + hi) \div 2) + 1, hi)

AndByte == AndRows(0, 65535)

And16(a, b) ==
    256 * AndByte[256 * (a \div 256) + (b \div 256) + 1]
    + AndByte[256 * (a % 256) + (b % 256) + 1]

Xor16(a, b) == a + b - 2 * And16(a, b)

XorW(x, y) == <<Xor16(x[1], y[1]), Xor16(x[2], y[2])>>
AndW(x, y) == <<And16(x[1], y[1]), And16(x[2], y[2])>>
NotW(x) == <<65536 - 1 - x[1], 65536 - 1 - x[2]>>
AddW(x, y) ==
    LET lo == x[2] + y[2]
        hi == x[1] + y[1] + (lo \div 65536)
    IN  <<hi % 65536, lo % 65536>>

RECURSIVE RotR(_, _)
RotR(x, n) ==
    IF n = 0 THEN x
    ELSE IF n >= 16 THEN RotR(<<x[2], x[1]>>, n - 16)
    ELSE LET p == Pow2(n)
             q == Pow2(16 - n)
         IN  <<(x[1] \div p) + (x[2] % p) * q, (x[2] \div p) + (x[1] % p) * q>>

ShR(x, n) ==
    LET p == Pow2(n)
        q == Pow2(16 - n)
    IN  <<x[1] \div p, (x[2] \div p) + (x[1] % p) * q>>

Ch(x, y, z) == XorW(AndW(x, y), AndW(NotW(x), z))
Maj(x, y, z) == XorW(XorW(AndW(x, y), AndW(x, z)), AndW(y, z))
BigSigma0(x) == XorW(XorW(RotR(x, 2), RotR(x, 13)), RotR(x, 22))
BigSigma1(x) == XorW(XorW(RotR(x, 6), RotR(x, 11)), RotR(x, 25))
SmallSigma0(x) == XorW(XorW(RotR(x, 7), RotR(x, 18)), ShR(x, 3))
SmallSigma1(x) == XorW(XorW(RotR(x, 17), RotR(x, 19)), ShR(x, 10))

ShaK ==
    <<
       <<17034, 12184>>, <<28983, 17553>>, <<46528, 64463>>, <<59829, 56229>>,
       <<14678, 49755>>, <<23025, 4593>>, <<37439, 33444>>, <<43804, 24277>>,
       <<55303, 43672>>, <<4739, 23297>>, <<9265, 34238>>, <<21772, 32195>>,
       <<29374, 23924>>, <<32990, 45566>>, <<39900, 1703>>, <<49563, 61812>>,
       <<58523, 27073>>, <<61374, 18310>>, <<4033, 40390>>, <<9228, 41420>>,
       <<11753, 11375>>, <<19060, 33962>>, <<23728, 43484>>, <<30457, 35034>>,
       <<38974, 20818>>, <<43057, 50797>>, <<45059, 10184>>, <<48985, 32711>>,
       <<50912, 3059>>, <<54695, 37191>>, <<1738, 25425>>, <<5161, 10599>>,
       <<10167, 2693>>, <<11803, 8504>>, <<19756, 28156>>, <<21304, 3347>>,
       <<25866, 29524>>, <<30314, 2747>>, <<33218, 51502>>, <<37490, 11397>>,
       <<41663, 59553>>, <<43034, 26187>>, <<49739, 35696>>, <<51052, 20899>>,
       <<53650, 59417>>, <<54937, 1572>>, <<62478, 13701>>, <<4202, 41072>>,
       <<6564, 49430>>, <<7735, 27656>>, <<10056, 30540>>, <<13488, 48309>>,
       <<14620, 3251>>, <<20184, 43594>>, <<23452, 51791>>, <<26670, 28659>>,
       <<29839, 33518>>, <<30885, 25455>>, <<33992, 30740>>, <<36039, 520>>,
       <<37054, 65530>>, <<42064, 27883>>, <<48889, 41975>>, <<50801, 30962>>    >>

ShaH0 ==
    <<
       <<27145, 58983>>, <<47975, 44677>>, <<15470, 62322>>, <<42319, 62778>>,
       <<20750, 21119>>, <<39685, 26764>>, <<8067, 55723>>, <<23520, 52505>>    >>

\* message padding: 0x80, zeros to 56 mod 64, then the bit length as 8 bytes
RECURSIVE Zeros(_)
Zeros(n) == IF n = 0 THEN <<>> ELSE <<0>> \o Zeros(n - 1)

Pad(bytes) ==
    LET n == Len(bytes)
        z == (64 + 55 - (n % 64)) % 64
        bits == 8 * n
    IN  bytes \o <<128>> \o Zeros(z) \o
        <<0, 0, 0, 0, (bits \div 16777216) % 256, (bits \div 65536) % 256,
          (bits \div 256) % 256, bits % 256>>

BlockWords(m, b) ==
    [t \in 1..16 |->
        LET o == 64 * b + 4 * (t - 1)
        IN  <<m[o + 1] * 256 + m[o + 2], m[o + 3] * 256 + m[o + 4]>>]

RECURSIVE Schedule(_)
Schedule(w) ==
    IF Len(w) = 64 THEN w
    ELSE LET t == Len(w) + 1
         IN  Schedule(Append(w,
                 AddW(AddW(SmallSigma1(w[t - 2]), w[t - 7]),
                      AddW(SmallSigma0(w[t - 15]), w[t - 16]))))

T1(s, kw) == AddW(AddW(AddW(s[8], BigSigma1(s[5])), Ch(s[5], s[6], s[7])), kw)
T2(s) == AddW(BigSigma0(s[1]), Maj(s[1], s[2], s[3]))
Round(s, kw) ==
    LET t1 == T1(s, kw)
        t2 == T2(s)
    IN  <<AddW(t1, t2), s[1], s[2], s[3], AddW(s[4], t1), s[5], s[6], s[7]>>

RECURSIVE Rounds(_, _, _)
Rounds(s, w, t) ==
    IF t > 64 \/ Len(s) # 8 THEN s   \* s is the eight working variables a..h
    ELSE Rounds(Round(s, AddW(ShaK[t], w[t])), w, t + 1)

Compress(h, block) ==
    LET s == Rounds(h, Schedule(block), 1)
    IN  [i \in 1..8 |-> AddW(h[i], s[i])]

RECURSIVE Blocks(_, _, _)
Blocks(h, m, b) ==
    IF 64 * b >= Len(m) THEN h
    ELSE Blocks(Compress(h, BlockWords(m, b)), m, b + 1)

Sha256(bytes) == Blocks(ShaH0, Pad(bytes), 0)

HexDigits == <<"0","1","2","3","4","5","6","7","8","9","a","b","c","d","e","f">>

\* a slip: the hexadecimal digits of v without the leading zeros
RECURSIVE HexUnpadded(_)
HexUnpadded(v) ==
    IF v < 16 THEN <<HexDigits[v + 1]>>
    ELSE HexUnpadded(v \div 16) \o <<HexDigits[(v % 16) + 1]>>

Hex16_unpadded(v) == HexUnpadded(v)

Hex16(v) ==
    <<HexDigits[(v \div 4096) + 1], HexDigits[((v \div 256) % 16) + 1],
      HexDigits[((v \div 16) % 16) + 1], HexDigits[(v % 16) + 1]>>

RECURSIVE HexDigest(_)
HexDigest(h) ==
    IF h = <<>> THEN <<>>
    ELSE Hex16(h[1][1]) \o Hex16(h[1][2]) \o HexDigest(Tail(h))

-----------------------------------------------------------------------------
(* get_hash_id *)

\* str.encode(): the UTF-8 bytes of one code point (a Unicode scalar value)
Utf8Char(c) ==
    IF c < 128 THEN <<c>>
    ELSE IF c < 2048 THEN <<192 + (c \div 64), 128 + (c % 64)>>
    ELSE IF c < 65536
         THEN <<224 + (c \div 4096), 128 + ((c \div 64) % 64), 128 + (c % 64)>>
         ELSE <<240 + (c \div 262144), 128 + ((c \div 4096) % 64),
                128 + ((c \div 64) % 64), 128 + (c % 64)>>

RECURSIVE Encode(_)
Encode(s) == IF s = <<>> THEN <<>> ELSE Utf8Char(s[1]) \o Encode(Tail(s))

\* a slip: the two parts joined with "_"
str_to_hash_separated(subject_id, extra_key) == subject_id \o <<95>> \o extra_key

str_to_hash(subject_id, extra_key) == subject_id \o extra_key

hash_str(subject_id, extra_key) == Sha256(Encode(str_to_hash(subject_id, extra_key)))

get_hash_id(subject_id, extra_key) == HexDigest(hash_str(subject_id, extra_key))

-----------------------------------------------------------------------------
(* The inputs the caller draws from *)

\* every text over the alphabet with at most n characters
TextsUpTo(alphabet, n) == UNION {[1..k -> alphabet] : k \in 0..n}

IdAlphabet == {"a", "-", "_", NUL}

\* the object ids of the documentation, and two that differ only in how a
\* hyphen is written
DocObjectIds ==
    {<<"a", "b", "c", "-", "1", "2", "3">>, <<"a", "-", "b", "-", "c">>,
     <<"a", "-", "b">>, <<"a", "N", "E", "G", "b">>}

ObjectIds == {PyStr(o) : o \in TextsUpTo(IdAlphabet, MaxLen) \cup DocObjectIds}

TileIndexes ==
    {PyInt(0), PyInt(12345), PyInt(-3),
     PyStr(<<"1", "2", "3", "4", "5">>), PyStr(<<"1">>), PyStr(<<"1", "_", "a">>)}

ReleaseNames == {PyNone, PyStr(<<>>), PyStr(<<"Q", "1", "_", "R", "1">>)}

\* the cells of the three columns of a DataFrame; a column has one dtype
ReleaseCells == {PlNull, PyStr(<<>>), PyStr(<<"Q", "1">>)}
TileStrCells == {PyStr(<<"7">>), PyStr(<<"-", "0", "7">>), PyStr(<<"a", "b", "c">>)}
TileIntCells == {PyInt(12), PyInt(-3)}
ObjectCells ==
    {PyStr(<<"a">>), PyStr(<<"a", "-", "1">>), PyStr(<<"a", "-", "b", "-", "c">>)}

\* the columns of a frame of n rows
ReleaseColumns(n) == [1..n -> ReleaseCells]
TileColumns(n) == [1..n -> TileStrCells] \cup [1..n -> TileIntCells]
ObjectColumns(n) == [1..n -> ObjectCells]

DataFrame(r, t, o) == [release_name |-> r, tile_index |-> t, object_id |-> o]

\* 'a', e-acute (2 bytes in UTF-8), the euro sign (3 bytes)
HashAlphabet == {97, 233, 8364}

HashTexts == TextsUpTo(HashAlphabet, MaxHashLen)

-----------------------------------------------------------------------------
(* The caller *)

NoCall == [variant |-> "none"]
NoRet == [kind |-> "none", value |-> <<>>, exc |-> ""]
NoHash == [called |-> FALSE, subject_id |-> <<>>, extra_key |-> <<>>, digest |-> <<>>]

Init ==
    /\ pc = "idle"
    /\ call = NoCall
    /\ ret = NoRet
    /\ hcall = NoHash

\* make_id_str(tile_index, object_id[, release_name])
CallScalar ==
    /\ pc = "idle"
    /\ \E t \in TileIndexes, o \in ObjectIds, r \in ReleaseNames :
          /\ call' = [variant |-> "scalar", tile_index |-> t, object_id |-> o,
                       release_name |-> r]
          /\ ret' = Return(make_id_str(t, o, r))
    /\ pc' = "returned"
    /\ UNCHANGED hcall

\* make_id_str(df, include_release_name=flag)
CallBatch ==
    /\ pc = "idle"
    /\ \E n \in 0..MaxRows, flag \in BOOLEAN :
          \E r \in ReleaseColumns(n), t \in TileColumns(n), o \in ObjectColumns(n) :
              /\ call' = [variant |-> "df", df |-> DataFrame(r, t, o),
                           include_release_name |-> flag]
              /\ ret' = make_id_str_df(DataFrame(r, t, o), flag)
    /\ pc' = "returned"
    /\ UNCHANGED hcall

\* the caller drops the result
Discard ==
    /\ pc = "returned"
    /\ pc' = "idle"
    /\ call' = NoCall
    /\ ret' = NoRet
    /\ hcall' = NoHash

Next == CallScalar \/ CallBatch \/ Discard

Spec == Init /\ [][Next]_vars

\* get_hash_id(subject_id, extra_key=extra_key)
CallHash ==
    /\ pc = "idle"
    /\ \E subject_id \in HashTexts, extra_key \in HashTexts :
          /\ Len(subject_id) + Len(extra_key) <= MaxHashLen
          /\ hcall' = [called |-> TRUE, subject_id |-> subject_id,
                        extra_key |-> extra_key,
                        digest |-> get_hash_id(subject_id, extra_key)]
    /\ pc' = "returned"
    /\ UNCHANGED <<call, ret>>

NextHash == CallHash \/ Discard

SpecHash == Init /\ [][NextHash]_vars

-----------------------------------------------------------------------------
(* What the claims are stated with *)

IsScalarCall == pc = "returned" /\ call.variant = "scalar"
IsBatchCall == pc = "returned" /\ call.variant = "df"
IsHashCall == pc = "returned" /\ hcall.called

\* the text s without its hyphens, each written NEG
RECURSIVE ReplaceEveryHyphen(_)
ReplaceEveryHyphen(s) ==
    IF s = <<>> THEN <<>>
    ELSE (IF s[1] = "-" THEN <<"N", "E", "G">> ELSE <<s[1]>>)
         \o ReplaceEveryHyphen(Tail(s))

\* [r + "_" +] str(t) + "_" + o.replace("-", "NEG")
DocumentedId(t, o, r) ==
    (IF r.type = "NoneType" THEN <<>> ELSE r.val \o <<"_">>)
    \o PyFormat(t) \o <<"_">> \o ReplaceEveryHyphen(o.val)

StartsWith(s, p) == Len(s) >= Len(p) /\ SubSeq(s, 1, Len(p)) = p
EndsWith(s, p) == Len(s) >= Len(p) /\ SubSeq(s, Len(s) - Len(p) + 1, Len(s)) = p

RECURSIVE Join(_)
Join(s) == IF s = <<>> THEN "" ELSE s[1] \o Join(Tail(s))

\* row i of a frame, as a frame of one row
RowFrame(df, i) ==
    [release_name |-> <<df.release_name[i]>>, tile_index |-> <<df.tile_index[i]>>,
     object_id |-> <<df.object_id[i]>>]

Rows(df) == 1..Height(df)

-----------------------------------------------------------------------------
(* C1: scalar make_id_str(t, o, r) returns, for every int or text t, text  *)
(* o and optional r, [r + "_" +] str(t) + "_" + o with every "-" replaced  *)
(* by "NEG", and never raises.  The code loses the NUL characters that end *)
(* o, so the statement is violated.                                        *)
Claim_C1 ==
    IsScalarCall =>
        /\ ret.kind = "return"
        /\ ret.value = DocumentedId(call.tile_index, call.object_id, call.release_name)

(* C2: each element of the batch result equals the scalar result for that  *)
(* row.  Stated in its most favourable reading: the scalar variant is      *)
(* given the row's tile_index as the integer it converts to, and rows with *)
(* a null release_name are left out.  The batch replaces the first hyphen  *)
(* only (C3), so the statement is violated.                                *)
Claim_C2 ==
    (IsBatchCall /\ ret.kind = "return") =>
        \A i \in Rows(call.df) :
            LET r == call.df.release_name[i]
            IN  r.type # "null" =>
                    ret.value[i] =
                        PyStr(make_id_str(CastCellInt64(call.df.tile_index[i]),
                                          call.df.object_id[i],
                                          IF call.include_release_name THEN r ELSE PyNone))

(* C3: in both variants every "-" of object_id is replaced by "NEG": the   *)
(* identifier ends with "_" and the object_id with each hyphen written NEG *)
(* (for the scalar variant, of an object_id that does not end in NUL, see  *)
(* C1).  The batch variant replaces the first hyphen only.                 *)
Claim_C3 ==
    /\ (IsScalarCall /\ StripTrailingNul(call.object_id.val) = call.object_id.val) =>
           EndsWith(ret.value, <<"_">> \o ReplaceEveryHyphen(call.object_id.val))
    /\ (IsBatchCall /\ ret.kind = "return") =>
           \A i \in Rows(call.df) :
               ret.value[i].type = "str" =>
                   EndsWith(ret.value[i].val,
                            <<"_">> \o ReplaceEveryHyphen(call.df.object_id[i].val))

(* C4: the batch variant raises, and returns no partial result, whenever a *)
(* row's tile_index is a text that is no integer, whatever the other rows  *)
(* and include_release_name are.                                           *)
Thm_C4 ==
    (IsBatchCall /\ \E i \in Rows(call.df) :
                        /\ call.df.tile_index[i].type = "str"
                        /\ ~IsInt64Text(call.df.tile_index[i].val)) =>
        /\ ret.kind = "raise"
        /\ ret.exc = "InvalidOperationError"
        /\ ret.value = <<>>

\* reached: a frame of a valid and an invalid row, and the call raised
Witness_C4 ==
    /\ IsBatchCall
    /\ Height(call.df) = 2
    /\ call.df.tile_index[1] = PyStr(<<"7">>)
    /\ call.df.tile_index[2] = PyStr(<<"a", "b", "c">>)
    /\ ret.kind = "raise"

(* C5: a batch of N rows that converts returns N elements, element i the   *)
(* result for row i alone: nothing is filtered, deduplicated or reordered. *)
Thm_C5 ==
    (IsBatchCall /\ ~PlCastInt64Fails(call.df.tile_index)) =>
        /\ ret.kind = "return"
        /\ Len(ret.value) = Height(call.df)
        /\ \A i \in Rows(call.df) :
               <<ret.value[i]>> =
                   make_id_str_df(RowFrame(call.df, i), call.include_release_name).value

\* reached: two equal rows, and two elements returned
Witness_C5 ==
    /\ IsBatchCall
    /\ Height(call.df) = 2
    /\ RowFrame(call.df, 1) = RowFrame(call.df, 2)
    /\ ret.kind = "return"
    /\ Len(ret.value) = 2

LowerHex == {HexDigits[i] : i \in 1..16}

Doc_abc_123 == PyStr(<<"a", "b", "c", "-", "1", "2", "3">>)
Doc_Q1_R1 == PyStr(<<"Q", "1", "_", "R", "1">>)
Doc_12345 == PyStr(<<"1", "2", "3", "4", "5">>)

IsDocCall(t, r) ==
    /\ IsScalarCall
    /\ call.tile_index = t
    /\ call.object_id = Doc_abc_123
    /\ call.release_name = r

Thm_C8 ==
    IsHashCall =>
        LET whole == hcall.subject_id \o hcall.extra_key
        IN  /\ hcall.extra_key # <<>> => hcall.digest = get_hash_id(whole, <<>>)
            /\ whole = <<>> => Join(hcall.digest) =
                   "e3b0c44298fc1c149afbf4c8996fb92427ae41e4649b934ca495991b7852b855"
            /\ whole = <<97>> => Join(hcall.digest) =
                   "ca978112ca1bbdcafac231b39a23dc4da786eff8147c4e72b9807785afee48bb"
            /\ whole = <<97, 233, 8364>> => Join(hcall.digest) =
                   "4316c1a231f3405966dad28c965103040f469cdec167012e3a5f69f24bb5c90f"

\* reached: a call whose two arguments are both non-empty
Witness_C8 ==
    /\ IsHashCall
    /\ hcall.subject_id = <<97, 233>>
    /\ hcall.extra_key = <<8364>>

(* C9: with include_release_name every element is a text that starts with *)
(* the row's release_name and "_", also when the release_name is empty or  *)
(* null; without it no element has a prefix and the release_name column    *)
(* does not matter.  A null release_name makes the element null.           *)
Claim_C9 ==
    (IsBatchCall /\ ret.kind = "return") =>
        IF call.include_release_name
        THEN \A i \in Rows(call.df) :
                 /\ ret.value[i].type = "str"
                 /\ call.df.release_name[i].type = "str" =>
                        StartsWith(ret.value[i].val,
                                   call.df.release_name[i].val \o <<"_">>)
        ELSE /\ \A i \in Rows(call.df) :
                    /\ ret.value[i].type = "str"
                    /\ StartsWith(ret.value[i].val,
                           CastCellStr(CastCellInt64(call.df.tile_index[i])).val \o <<"_">>)
             /\ ret = make_id_str_df(
                          [call.df EXCEPT !.release_name = PlLit(<<>>, Height(call.df))],
                          FALSE)

NoNul(o) == \A i \in 1..Len(o.val) : o.val[i] # NUL

(* C10: two distinct triples (release_name, str(tile_index), object_id)    *)
(* never give the same identifier.  Stated for object ids without a NUL    *)
(* (see C1); the texts "NEG" and "_" inside the fields still collide.      *)
Claim_C10 ==
    (IsScalarCall /\ NoNul(call.object_id)) =>
        \A t \in TileIndexes, o \in {x \in ObjectIds : NoNul(x)}, r \in ReleaseNames :
            (\/ r.type # call.release_name.type
             \/ r.val # call.release_name.val
             \/ PyFormat(t) # PyFormat(call.tile_index)
             \/ o.val # call.object_id.val) =>
                make_id_str(t, o, r) # ret.value

====
